---- MODULE Spec2Model ----
(***************************************************************************)
(* The contact store of src/index.js and the resolvers that read and       *)
(* write it.  One action per resolver; a step is one resolver call, as the *)
(* resolvers are synchronous and Node runs them one at a time.             *)
(*                                                                         *)
(* JavaScript values that may be undefined, null or a string (the phone    *)
(* of a contact, the phone argument of allPersons, a resolver's result)    *)
(* are tagged records, so that truthiness and === are computed as          *)
(* JavaScript computes them.  A contact is a record whose keys are the     *)
(* keys of the JavaScript object: a contact created without a phone has no *)
(* phone key.  name, street, city and id are always strings (String! in    *)
(* the schema, string literals in the seed) and are kept as strings.       *)
(***************************************************************************)
EXTENDS Integers, Sequences, FiniteSets, TLC

VARIABLES
    persons,    \* the module-level array `persons`
    uuidCount,  \* how many identifiers uuid() has handed out so far
    call,       \* the last resolver call: its name and its arguments
    result      \* what that call returned or threw

vars == <<persons, uuidCount, call, result>>

----------------------------------------------------------------------------
(* JavaScript values *)

Undefined == [kind |-> "undefined"]
Null == [kind |-> "null"]
Str(s) == [kind |-> "string", value |-> s]
Num(n) == [kind |-> "number", value |-> n]
Obj(o) == [kind |-> "object", value |-> o]
List(s) == [kind |-> "array", value |-> s]

\* obj.key: undefined when the object has no such key
Prop(obj, key) == IF key \in DOMAIN obj THEN obj[key] ELSE Undefined

\* the truthiness `!v` and `cond ? a : b` test: undefined, null and the
\* empty string are falsy; objects, arrays and non-empty strings are truthy
Truthy(v) ==
    CASE v.kind = "undefined" -> FALSE
      [] v.kind = "null" -> FALSE
      [] v.kind = "string" -> v.value # ""
      [] v.kind = "number" -> v.value # 0
      [] OTHER -> TRUE

----------------------------------------------------------------------------
(* Bounds and input domains *)

\* how many names that are not in the seed the callers may use
NumNewNames == 2

NewName(i) ==
    CASE i = 1 -> "Pekka Mikkola"
      [] i = 2 -> "arto hellas"
      [] OTHER -> "Person " \o ToString(i)

\* the seeded names the callers use: one contact with a phone, one without
\* (the third seeded contact stays in the store and is never named)
CalledSeedNames == {"Arto Hellas", "Venla Ruuska"}
NewNames == {NewName(i) : i \in 1..NumNewNames}
Names == CalledSeedNames \cup NewNames

\* phone: String! of editNumber
EditPhones == {Str(""), Str("045-2374321")}

\* phone: String of addPerson, when it is given: null or a string
AddPhones == {Null, Str("045-2374321")}

Streets == {"Vilppulantie 25"}
Cities == {"Helsinki"}

\* the arguments of addPerson: phone may be left out
AddArgs ==
    [name : Names, street : Streets, city : Cities]
    \cup [name : Names, phone : AddPhones, street : Streets, city : Cities]

EditArgs == [name : Names, phone : EditPhones]

\* the arguments of allPersons: phone left out, null, YES or NO
AllPersonsArgs ==
    {<<>>} \cup [phone : {Null, Str("YES"), Str("NO")}]

FindArgs == [name : Names]

----------------------------------------------------------------------------
(* The store *)

\* the initial value of `persons` (the a-umlaut of the third street is
\* written as a; no resolver looks inside a street)
SeedPersons ==
    << [name |-> "Arto Hellas", phone |-> Str("040-123543"),
        street |-> "Tapiolankatu 5 A", city |-> "Espoo",
        id |-> "3d594650-3436-11e9-bc57-8b80ba54c431"],
       [name |-> "Matti Luukkainen", phone |-> Str("040-432342"),
        street |-> "Malminkaari 10 A", city |-> "Helsinki",
        id |-> "3d599470-3436-11e9-bc57-8b80ba54c431"],
       [name |-> "Venla Ruuska",
        street |-> "Nallemaentie 22 C", city |-> "Helsinki",
        id |-> "3d599471-3436-11e9-bc57-8b80ba54c431"] >>

\* uuid(): the n-th identifier of the time-based (v1) generator.  The
\* generator never repeats an identifier, and its identifiers carry the
\* current time, so none equals a seed identifier (all of 2019).
Uuid(n) == "uuid-v1-" \o ToString(n)

\* a slip: the comparison reads the wrong field, ps.find(p => p.id === name)
FindWrongField(ps, name) ==
    IF \E i \in 1..Len(ps) : ps[i].id = name
    THEN Obj(ps[CHOOSE k \in 1..Len(ps) : ps[k].id = name])
    ELSE Undefined

\* ps.find(p => p.name === name)
Find(ps, name) ==
    IF \E i \in 1..Len(ps) : ps[i].name = name
    THEN LET i == CHOOSE k \in 1..Len(ps) :
                      /\ ps[k].name = name
                      /\ \A j \in 1..(k - 1) : ps[j].name # name
         IN  Obj(ps[i])
    ELSE Undefined

\* a slip: the result of concat is discarded (concat does not change ps)
ConcatDiscarded(ps, person) == ps

\* a slip: the new contact is put in front, [person].concat(ps)
ConcatInFront(ps, person) == <<person>> \o ps

\* ps.concat(person)
Concat(ps, person) == Append(ps, person)

\* a slip: the generated id is left out, { ...args }
NewPersonWithoutId(args, id) == args

\* { ...args, id: id }
NewPerson(args, id) == [id |-> id] @@ args

\* a slip: the spread comes last and overrides, { phone: phone, ...person }
UpdatedPersonSpreadLast(person, phone) == person @@ [phone |-> phone]

\* { ...person, phone: phone }
UpdatedPerson(person, phone) == [phone |-> phone] @@ person

\* a slip: the test is inverted, p.name !== name ? updatedPerson : p
MapReplaceInverted(ps, name, updatedPerson) ==
    [i \in 1..Len(ps) |-> IF ps[i].name # name THEN updatedPerson ELSE ps[i]]

\* ps.map(p => p.name === name ? updatedPerson : p)
MapReplace(ps, name, updatedPerson) ==
    [i \in 1..Len(ps) |-> IF ps[i].name = name THEN updatedPerson ELSE ps[i]]

\* a slip: the filter tests the key, not the value: 'phone' in person
ByPhoneKeyPresent(args, person) ==
    IF Prop(args, "phone") = Str("YES")
    THEN "phone" \in DOMAIN person
    ELSE "phone" \notin DOMAIN person

\* byPhone of allPersons
ByPhone(args, person) ==
    IF Prop(args, "phone") = Str("YES")
    THEN Truthy(Prop(person, "phone"))
    ELSE ~Truthy(Prop(person, "phone"))

\* a slip: the count of the seed is returned, not the current length
PersonCountOfSeed(ps) == Len(SeedPersons)

\* resolvers.Query.personCount
PersonCount(ps) == Len(ps)

\* resolvers.Query.allPersons
AllPersons(ps, args) ==
    IF ~Truthy(Prop(args, "phone"))
    THEN ps
    ELSE SelectSeq(ps, LAMBDA p : ByPhone(args, p))

\* a slip: filter instead of find, so an array is returned
FindPersonByFilter(ps, args) ==
    List(SelectSeq(ps, LAMBDA p : p.name = args.name))

\* resolvers.Query.findPerson
FindPerson(ps, args) == Find(ps, args.name)

\* a slip: the city is copied into both fields
AddressCityTwice(obj) == [street |-> obj.city, city |-> obj.city]

\* resolvers.Person.address
Address(obj) == [street |-> obj.street, city |-> obj.city]

\* the GraphQLError thrown by addPerson
DuplicateNameError(name) ==
    [kind |-> "error", message |-> "Name must be unique",
     code |-> "BAD_USER_INPUT", invalidArgs |-> name]

----------------------------------------------------------------------------
(* The resolvers as actions *)

Init ==
    /\ persons = SeedPersons
    /\ uuidCount = 0
    /\ call = [op |-> "start"]
    /\ result = Undefined

personCount ==
    /\ call' = [op |-> "personCount"]
    /\ result' = Num(PersonCount(persons))
    /\ UNCHANGED <<persons, uuidCount>>

allPersons ==
    \E args \in AllPersonsArgs :
        /\ call' = [op |-> "allPersons", args |-> args]
        /\ result' = List(AllPersons(persons, args))
        /\ UNCHANGED <<persons, uuidCount>>

findPerson ==
    \E args \in FindArgs :
        /\ call' = [op |-> "findPerson", args |-> args]
        /\ result' = FindPerson(persons, args)
        /\ UNCHANGED <<persons, uuidCount>>

\* Person.address is resolved on a contact a parent resolver returned
address ==
    \E i \in 1..Len(persons) :
        /\ call' = [op |-> "address", obj |-> persons[i]]
        /\ result' = Obj(Address(persons[i]))
        /\ UNCHANGED <<persons, uuidCount>>

addPerson ==
    \E args \in AddArgs :
        /\ call' = [op |-> "addPerson", args |-> args]
        /\ IF Truthy(Find(persons, args.name))
           THEN /\ result' = DuplicateNameError(args.name)
                /\ UNCHANGED <<persons, uuidCount>>
           ELSE LET person == NewPerson(args, Uuid(uuidCount + 1))
                IN  /\ uuidCount' = uuidCount + 1
                    /\ persons' = Concat(persons, person)
                    /\ result' = Obj(person)

editNumber ==
    \E args \in EditArgs :
        /\ call' = [op |-> "editNumber", args |-> args]
        /\ LET person == Find(persons, args.name)
           IN  IF ~Truthy(person)
               THEN /\ result' = Null
                    /\ UNCHANGED <<persons, uuidCount>>
               ELSE LET updatedPerson == UpdatedPerson(person.value, args.phone)
                    IN  /\ persons' = MapReplace(persons, args.name, updatedPerson)
                        /\ result' = Obj(updatedPerson)
                        /\ UNCHANGED uuidCount

Next ==
    \/ personCount
    \/ allPersons
    \/ findPerson
    \/ address
    \/ addPerson
    \/ editNumber

Spec == Init /\ [][Next]_vars

----------------------------------------------------------------------------
(* Vocabulary of the properties *)

Indexes(ps) == 1..Len(ps)
HasName(ps, name) == \E i \in Indexes(ps) : ps[i].name = name
IdsOf(ps) == {ps[i].id : i \in Indexes(ps)}
ElementsOf(ps) == {ps[i] : i \in Indexes(ps)}
SeedIds == IdsOf(SeedPersons)

\* a phone that is a string with at least one character
HasNonEmptyPhone(p) ==
    /\ "phone" \in DOMAIN p
    /\ p.phone.kind = "string"
    /\ p.phone.value # ""

\* s is ps with the elements that fail Keep left out, in the order of ps
IsSelection(s, ps, Keep(_)) ==
    /\ ElementsOf(s) = {p \in ElementsOf(ps) : Keep(p)}
    /\ Len(s) = Cardinality({i \in Indexes(ps) : Keep(ps[i])})

Queries == {"personCount", "allPersons", "findPerson", "address"}

----------------------------------------------------------------------------
(* C1: addPerson with a name that a contact of the store already has fails
   with the duplicate-name error (code BAD_USER_INPUT, carrying the name)
   and leaves the store unchanged: same count, every contact as it was. *)
C1_DuplicateNameRejected ==
    [][ (call'.op = "addPerson" /\ HasName(persons, call'.args.name))
        => /\ result'.kind = "error"
           /\ result'.code = "BAD_USER_INPUT"
           /\ result'.invalidArgs = call'.args.name
           /\ Len(persons') = Len(persons)
           /\ \A i \in Indexes(persons) : persons'[i] = persons[i] ]_vars

\* a duplicate addPerson has been rejected, on a store that has grown
C1_Witness ==
    /\ call.op = "addPerson"
    /\ result.kind = "error"
    /\ HasName(persons, call.args.name)
    /\ Len(persons) > Len(SeedPersons)

(* C2: addPerson with a name no contact has makes the store one longer and
   returns a record with the given name, phone, street and city and an id
   that no contact had before the call. *)
C2_NewNameAdded ==
    [][ (call'.op = "addPerson" /\ ~HasName(persons, call'.args.name))
        => /\ Len(persons') = Len(persons) + 1
           /\ result'.kind = "object"
           /\ result'.value.name = call'.args.name
           /\ Prop(result'.value, "phone") = Prop(call'.args, "phone")
           /\ result'.value.street = call'.args.street
           /\ result'.value.city = call'.args.city
           /\ "id" \in DOMAIN result'.value
           /\ result'.value.id \notin IdsOf(persons) ]_vars

\* a second contact has been added, with a phone
C2_Witness ==
    /\ call.op = "addPerson"
    /\ result.kind = "object"
    /\ HasNonEmptyPhone(result.value)
    /\ Len(persons) = Len(SeedPersons) + 2

(* C3: editNumber on a name of the store replaces the phone of that contact
   and nothing else (name, street, city and id kept, every other contact
   kept) and returns the updated contact; on a name not in the store it
   returns null and leaves the store unchanged. *)
C3_EditNumberFrame ==
    [][ call'.op = "editNumber"
        => IF HasName(persons, call'.args.name)
           THEN /\ Len(persons') = Len(persons)
                /\ \A i \in Indexes(persons) :
                     IF persons[i].name = call'.args.name
                     THEN /\ DOMAIN persons'[i] = DOMAIN persons[i] \cup {"phone"}
                          /\ persons'[i].phone = call'.args.phone
                          /\ persons'[i].name = persons[i].name
                          /\ persons'[i].street = persons[i].street
                          /\ persons'[i].city = persons[i].city
                          /\ persons'[i].id = persons[i].id
                          /\ result' = Obj(persons'[i])
                     ELSE persons'[i] = persons[i]
           ELSE /\ result' = Null
                /\ persons' = persons ]_vars

\* the phone of a seeded contact that had one has been replaced
C3_Witness ==
    /\ call.op = "editNumber"
    /\ result.kind = "object"
    /\ result.value.name = "Arto Hellas"
    /\ result.value.phone = Str("045-2374321")

(* C4: in every reachable state every contact has a non-empty id, a street
   and a city, no two contacts share an id and no two share a name. *)
C4_StoreInvariant ==
    /\ \A i \in Indexes(persons) :
         /\ {"id", "name", "street", "city"} \subseteq DOMAIN persons[i]
         /\ persons[i].id # ""
    /\ \A i, j \in Indexes(persons) :
         i # j => /\ persons[i].id # persons[j].id
                  /\ persons[i].name # persons[j].name

\* two contacts were added and one of them was edited afterwards
C4_Witness ==
    /\ Len(persons) = Len(SeedPersons) + 2
    /\ call.op = "editNumber"
    /\ result.kind = "object"
    /\ result.value.id \notin SeedIds

(* C5: allPersons(phone: YES) is exactly the contacts with a non-empty
   phone, allPersons(phone: NO) is exactly the others; the two are disjoint
   and together hold every contact.  What an allPersons call returned is
   that selection. *)
C5_PhoneFilterPartition ==
    LET yes == AllPersons(persons, [phone |-> Str("YES")])
        no == AllPersons(persons, [phone |-> Str("NO")])
    IN  /\ IsSelection(yes, persons, LAMBDA p : HasNonEmptyPhone(p))
        /\ IsSelection(no, persons, LAMBDA p : ~HasNonEmptyPhone(p))
        /\ ElementsOf(yes) \cap ElementsOf(no) = {}
        /\ ElementsOf(yes) \cup ElementsOf(no) = ElementsOf(persons)
        /\ Len(yes) + Len(no) = Len(persons)
        /\ (call.op = "allPersons" /\ Prop(call.args, "phone") = Str("YES"))
             => result = List(yes)
        /\ (call.op = "allPersons" /\ Prop(call.args, "phone") = Str("NO"))
             => result = List(no)

\* allPersons(phone: NO) was called on a store with a contact added without
\* a phone, one added with a null phone and one whose phone was set to ""
C5_Witness ==
    /\ call.op = "allPersons"
    /\ Prop(call.args, "phone") = Str("NO")
    /\ \E i \in Indexes(persons) :
         persons[i].id \notin SeedIds /\ "phone" \notin DOMAIN persons[i]
    /\ \E i \in Indexes(persons) : Prop(persons[i], "phone") = Null
    /\ \E i \in Indexes(persons) : Prop(persons[i], "phone") = Str("")

(* C6: personCount is the length of what allPersons returns when it is
   called with no filter argument. *)
C6_CountIsLengthOfAll ==
    /\ PersonCount(persons) = Len(AllPersons(persons, <<>>))
    /\ call.op = "personCount"
         => result = Num(Len(AllPersons(persons, <<>>)))
    /\ (call.op = "allPersons" /\ "phone" \notin DOMAIN call.args)
         => Len(result.value) = PersonCount(persons)

\* personCount was called after a contact was added
C6_Witness ==
    /\ call.op = "personCount"
    /\ result.value > Len(SeedPersons)

(* C7: for every name, findPerson(name) is the contact of the store with
   that name, as it is now, or none when no contact has that name. *)
C7_FindPersonExact ==
    /\ \A n \in Names \cup {"Matti Luukkainen"} :
         LET r == FindPerson(persons, [name |-> n])
         IN  IF HasName(persons, n)
             THEN /\ r.kind = "object"
                  /\ r.value \in ElementsOf(persons)
                  /\ r.value.name = n
                  /\ \A i \in Indexes(persons) :
                       persons[i].name = n => persons[i] = r.value
             ELSE r = Undefined
    /\ call.op = "findPerson"
         => result = FindPerson(persons, call.args)

\* findPerson returned an added contact whose phone was edited to ""
C7_Witness ==
    /\ call.op = "findPerson"
    /\ result.kind = "object"
    /\ result.value.id \notin SeedIds
    /\ Prop(result.value, "phone") = Str("")

(* C8: no step removes a contact or changes an id: every contact of the
   store is, after any step, still in the store under the same id with the
   same name, street and city, and the count does not go down.  (Holding
   for every step, it holds between any state and every later one.) *)
C8_NeverDeleted ==
    [][ /\ Len(persons') >= Len(persons)
        /\ \A i \in Indexes(persons) :
             \E j \in Indexes(persons') :
                /\ persons'[j].id = persons[i].id
                /\ persons'[j].name = persons[i].name
                /\ persons'[j].street = persons[i].street
                /\ persons'[j].city = persons[i].city ]_vars

\* a seeded contact was edited in a store that holds added contacts
C8_Witness ==
    /\ Len(persons) > Len(SeedPersons)
    /\ call.op = "editNumber"
    /\ result.kind = "object"
    /\ result.value.id \in SeedIds

(* C9: the store is in insertion order: every step keeps each contact at
   its position, so addPerson puts the new contact after all the others
   and editNumber moves nothing. *)
C9_InsertionOrder ==
    [][ /\ Len(persons') >= Len(persons)
        /\ \A i \in Indexes(persons) :
             /\ persons'[i].id = persons[i].id
             /\ persons'[i].name = persons[i].name
        /\ (call'.op = "addPerson" /\ result'.kind = "object")
             => /\ Len(persons') = Len(persons) + 1
                /\ persons'[Len(persons')] = result'.value ]_vars

\* a contact was added behind an earlier added contact
C9_Witness ==
    /\ call.op = "addPerson"
    /\ result.kind = "object"
    /\ Len(persons) = Len(SeedPersons) + 2
    /\ persons[Len(persons)] = result.value
    /\ persons[Len(persons) - 1].id \notin SeedIds

(* C10: personCount, allPersons, findPerson and Person.address leave the
   store as it was, and Person.address returns the street and the city of
   the contact it is resolved on and nothing else. *)
C10_QueriesReadOnly ==
    [][ /\ call'.op \in Queries => persons' = persons
        /\ call'.op = "address"
             => /\ result'.kind = "object"
                /\ DOMAIN result'.value = {"street", "city"}
                /\ result'.value.street = call'.obj.street
                /\ result'.value.city = call'.obj.city ]_vars

\* Person.address was resolved on an added contact
C10_Witness ==
    /\ call.op = "address"
    /\ call.obj.id \notin SeedIds
    /\ result.value = [street |-> "Vilppulantie 25", city |-> "Helsinki"]

====
